---- MODULE Spec2Model ----
(***************************************************************************)
(* A model of the tor1 relay-cell cryptography of                          *)
(* crates/tor-proto/src/crypto/cell/tor1.rs.                               *)
(*                                                                         *)
(* The stream cipher SC and the digest D are type parameters of the code.  *)
(* They are modelled as ideal primitives over a free GF(2) vector space:   *)
(* a byte is a finite set of atoms, XOR is symmetric difference, the zero  *)
(* byte is the empty set.  An atom is a triple <<kind, n, arg>>:           *)
(*   <<"b", i, <<>>>>   bit i of an ordinary data byte                     *)
(*   <<"k", p, key>>    keystream byte number p of the cipher keyed `key`  *)
(*   <<"h", i, acc>>    byte i of the finalized digest of the input `acc`  *)
(* so that two keystream bytes, or two digest outputs, are equal exactly   *)
(* when they come from the same key and position, or the same input.       *)
(* The widths (cell, fields, key, digest output) are scaled down; the      *)
(* code is generic over all of them.                                       *)
(***************************************************************************)
EXTENDS Naturals, Sequences, FiniteSets, TLC

----------------------------------------------------------------------------
(* Widths.  Ranges are 1-based index sets, where Rust has 0-based ranges.  *)

\* RelayCellBody: the fixed width of a cell body (509 in the code).
CELL_LEN == 7
\* RCF::FIELDS::RECOGNIZED_RANGE
RECOGNIZED_RANGE == 2..3
\* RCF::FIELDS::DIGEST_RANGE
DIGEST_RANGE == 5..6
\* D::OutputSize
OutputSize == 4
\* SC::KeySize
KeySize == 2
\* crypto::binding::CIRC_BINDING_LEN
CIRC_BINDING_LEN == 1
\* super::SENDME_TAG_LEN
SENDME_TAG_LEN == 3

----------------------------------------------------------------------------
(* Bytes and byte strings.                                                 *)

Zero == {}

Bit(i) == <<"b", i, <<>>>>

\* The byte with the value n, 0 <= n < 4.
ByteOf(n) == {Bit(i) : i \in {j \in 0..1 : (n \div (2 ^ j)) % 2 = 1}}

BytesOf(s) == [j \in 1..Len(s) |-> ByteOf(s[j])]

Xor(a, b) == (a \ b) \cup (b \ a)

Slice(s, lo, hi) == [j \in 1..(hi - lo + 1) |-> s[lo + j - 1]]

Lo(range) == CHOOSE i \in range : \A j \in range : i <= j
Hi(range) == CHOOSE i \in range : \A j \in range : i >= j

\* slice.fill(0) over a range of the cell
Fill0(buf, range) == [j \in 1..Len(buf) |-> IF j \in range THEN Zero ELSE buf[j]]

\* ct::is_zero
is_zero(s) == \A j \in 1..Len(s) : s[j] = Zero

\* ct::bytes_eq
bytes_eq(a, b) == Len(a) = Len(b) /\ \A j \in 1..Len(a) : a[j] = b[j]

----------------------------------------------------------------------------
(* The primitives the code is generic over.                                *)

\* SC::new(key, &Default::default()): keyed, default IV, position zero.
SC_new(key) == [key |-> key, pos |-> 0]

\* StreamCipher::apply_keystream: XOR the next Len(buf) keystream bytes
\* into buf and advance the position by Len(buf).
apply_keystream(cipher, buf) ==
    [cipher |-> [cipher EXCEPT !.pos = @ + Len(buf)],
     buf    |-> [j \in 1..Len(buf) |->
                    Xor(buf[j], {<<"k", cipher.pos + j, cipher.key>>})]]

\* Digest::new
D_new == <<>>

\* Digest::update / chain_update: the accumulator is the input so far.
D_update(d, bytes) == d \o bytes

\* Digest::finalize
D_finalize(d) == [i \in 1..OutputSize |-> {<<"h", i, d>>}]

\* GenericArray::default()
GenericArray_default == [i \in 1..OutputSize |-> Zero]

----------------------------------------------------------------------------
(* RelayCellBody: the digest / recognized algorithm.                       *)

\* RelayCellBody::recognized
recognized(cell) == Slice(cell, Lo(RECOGNIZED_RANGE), Hi(RECOGNIZED_RANGE))

\* RelayCellBody::digest
digest(cell) == Slice(cell, Lo(DIGEST_RANGE), Hi(DIGEST_RANGE))

\* RCF::FIELDS::EMPTY_DIGEST
EMPTY_DIGEST == [i \in 1..Cardinality(DIGEST_RANGE) |-> Zero]

\* set_digest without the fill of the recognized field.
set_digest_keeps_recognized(cell, d, used_digest) ==
    LET zeroed == Fill0(cell, DIGEST_RANGE)
        d2     == D_update(d, zeroed)
        used   == D_finalize(d2)
        prefix == Slice(used, 1, Cardinality(DIGEST_RANGE))
    IN  [cell |-> [j \in 1..Len(zeroed) |->
                      IF j \in DIGEST_RANGE
                      THEN prefix[j - Lo(DIGEST_RANGE) + 1] ELSE zeroed[j]],
         d |-> d2,
         used_digest |-> used]

\* set_digest that feeds the digest before it zeroes the two fields.
set_digest_updates_first(cell, d, used_digest) ==
    LET zeroed == Fill0(Fill0(cell, RECOGNIZED_RANGE), DIGEST_RANGE)
        d2     == D_update(d, cell)
        used   == D_finalize(d2)
        prefix == Slice(used, 1, Cardinality(DIGEST_RANGE))
    IN  [cell |-> [j \in 1..Len(zeroed) |->
                      IF j \in DIGEST_RANGE
                      THEN prefix[j - Lo(DIGEST_RANGE) + 1] ELSE zeroed[j]],
         d |-> d2,
         used_digest |-> used]

\* set_digest that feeds a copy of the running digest and drops it.
set_digest_on_clone(cell, d, used_digest) ==
    LET zeroed == Fill0(Fill0(cell, RECOGNIZED_RANGE), DIGEST_RANGE)
        d2     == D_update(d, zeroed)
        used   == D_finalize(d2)
        prefix == Slice(used, 1, Cardinality(DIGEST_RANGE))
    IN  [cell |-> [j \in 1..Len(zeroed) |->
                      IF j \in DIGEST_RANGE
                      THEN prefix[j - Lo(DIGEST_RANGE) + 1] ELSE zeroed[j]],
         d |-> d,
         used_digest |-> used]

\* set_digest whose snapshot consumes the running digest and leaves a new,
\* empty one.
set_digest_finalize_resets(cell, d, used_digest) ==
    LET zeroed == Fill0(Fill0(cell, RECOGNIZED_RANGE), DIGEST_RANGE)
        d2     == D_update(d, zeroed)
        used   == D_finalize(d2)
        prefix == Slice(used, 1, Cardinality(DIGEST_RANGE))
    IN  [cell |-> [j \in 1..Len(zeroed) |->
                      IF j \in DIGEST_RANGE
                      THEN prefix[j - Lo(DIGEST_RANGE) + 1] ELSE zeroed[j]],
         d |-> D_new,
         used_digest |-> used]

\* set_digest that feeds the digest before it zeroes the digest field.
set_digest_feeds_old_digest(cell, d, used_digest) ==
    LET fed    == Fill0(cell, RECOGNIZED_RANGE)
        zeroed == Fill0(fed, DIGEST_RANGE)
        d2     == D_update(d, fed)
        used   == D_finalize(d2)
        prefix == Slice(used, 1, Cardinality(DIGEST_RANGE))
    IN  [cell |-> [j \in 1..Len(zeroed) |->
                      IF j \in DIGEST_RANGE
                      THEN prefix[j - Lo(DIGEST_RANGE) + 1] ELSE zeroed[j]],
         d |-> d2,
         used_digest |-> used]

\* RelayCellBody::set_digest
set_digest(cell, d, used_digest) ==
    LET zeroed == Fill0(Fill0(cell, RECOGNIZED_RANGE), DIGEST_RANGE)
        d2     == D_update(d, zeroed)
        used   == D_finalize(d2)
        prefix == Slice(used, 1, Cardinality(DIGEST_RANGE))
    IN  [cell |-> [j \in 1..Len(zeroed) |->
                      IF j \in DIGEST_RANGE
                      THEN prefix[j - Lo(DIGEST_RANGE) + 1] ELSE zeroed[j]],
         d |-> d2,
         used_digest |-> used]

\* is_recognized that feeds the running digest itself, not a copy, and so
\* keeps the fed digest when the digest field does not match.
is_recognized_no_copy(cell, d, rcvd) ==
    IF ~is_zero(recognized(cell))
    THEN [ok |-> FALSE, d |-> d, rcvd |-> rcvd]
    ELSE LET dtmp1  == D_update(d, Slice(cell, 1, Lo(DIGEST_RANGE) - 1))
             dtmp2  == D_update(dtmp1, EMPTY_DIGEST)
             dtmp3  == D_update(dtmp2, Slice(cell, Hi(DIGEST_RANGE) + 1, Len(cell)))
             result == D_finalize(dtmp3)
         IN  IF bytes_eq(digest(cell), Slice(result, 1, Cardinality(DIGEST_RANGE)))
             THEN [ok |-> TRUE, d |-> dtmp3, rcvd |-> result]
             ELSE [ok |-> FALSE, d |-> dtmp3, rcvd |-> rcvd]

\* is_recognized that does not store the finalized value on a match.
is_recognized_keeps_rcvd(cell, d, rcvd) ==
    IF ~is_zero(recognized(cell))
    THEN [ok |-> FALSE, d |-> d, rcvd |-> rcvd]
    ELSE LET dtmp1  == D_update(d, Slice(cell, 1, Lo(DIGEST_RANGE) - 1))
             dtmp2  == D_update(dtmp1, EMPTY_DIGEST)
             dtmp3  == D_update(dtmp2, Slice(cell, Hi(DIGEST_RANGE) + 1, Len(cell)))
             result == D_finalize(dtmp3)
         IN  IF bytes_eq(digest(cell), Slice(result, 1, Cardinality(DIGEST_RANGE)))
             THEN [ok |-> TRUE, d |-> dtmp3, rcvd |-> rcvd]
             ELSE [ok |-> FALSE, d |-> d, rcvd |-> rcvd]

\* is_recognized that compares the first byte of the digest field only.
is_recognized_first_byte(cell, d, rcvd) ==
    IF ~is_zero(recognized(cell))
    THEN [ok |-> FALSE, d |-> d, rcvd |-> rcvd]
    ELSE LET dtmp1  == D_update(d, Slice(cell, 1, Lo(DIGEST_RANGE) - 1))
             dtmp2  == D_update(dtmp1, EMPTY_DIGEST)
             dtmp3  == D_update(dtmp2, Slice(cell, Hi(DIGEST_RANGE) + 1, Len(cell)))
             result == D_finalize(dtmp3)
         IN  IF bytes_eq(Slice(digest(cell), 1, 1), Slice(result, 1, 1))
             THEN [ok |-> TRUE, d |-> dtmp3, rcvd |-> result]
             ELSE [ok |-> FALSE, d |-> d, rcvd |-> rcvd]

\* RelayCellBody::is_recognized
is_recognized(cell, d, rcvd) ==
    IF ~is_zero(recognized(cell))
    THEN [ok |-> FALSE, d |-> d, rcvd |-> rcvd]
    ELSE LET dtmp1  == D_update(d, Slice(cell, 1, Lo(DIGEST_RANGE) - 1))
             dtmp2  == D_update(dtmp1, EMPTY_DIGEST)
             dtmp3  == D_update(dtmp2, Slice(cell, Hi(DIGEST_RANGE) + 1, Len(cell)))
             result == D_finalize(dtmp3)
         IN  IF bytes_eq(digest(cell), Slice(result, 1, Cardinality(DIGEST_RANGE)))
             THEN [ok |-> TRUE, d |-> dtmp3, rcvd |-> result]
             ELSE [ok |-> FALSE, d |-> d, rcvd |-> rcvd]

----------------------------------------------------------------------------
(* CryptState and CryptStatePair.                                          *)

\* CryptStatePair::seed_len
seed_len == KeySize * 2 + OutputSize * 2 + CIRC_BINDING_LEN

\* CircuitBinding::try_from: the constructor of the binding key, which
\* takes a byte string of CIRC_BINDING_LEN bytes.
CircuitBinding_try_from(bytes) ==
    IF Len(bytes) = CIRC_BINDING_LEN
    THEN [ok |-> TRUE, val |-> bytes]
    ELSE [ok |-> FALSE]

\* initialize that also rejects a seed whose two cipher keys are equal.
initialize_rejects_equal_keys(seed) ==
    IF Len(seed) # seed_len
    THEN [ok |-> FALSE]
    ELSE LET dlen   == OutputSize
             keylen == KeySize
             df == Slice(seed, 1, dlen)
             db == Slice(seed, dlen + 1, 2 * dlen)
             kf == Slice(seed, 2 * dlen + 1, 2 * dlen + keylen)
             kb == Slice(seed, 2 * dlen + keylen + 1, 2 * dlen + 2 * keylen)
             binding_key == Slice(seed, 2 * dlen + 2 * keylen + 1,
                                  2 * dlen + 2 * keylen + CIRC_BINDING_LEN)
         IN  IF kf = kb
             THEN [ok |-> FALSE]
             ELSE [ok   |-> TRUE,
                   fwd  |-> [cipher |-> SC_new(kf),
                             digest |-> D_update(D_new, df),
                             last_digest_val |-> GenericArray_default],
                   back |-> [cipher |-> SC_new(kb),
                             digest |-> D_update(D_new, db),
                             last_digest_val |-> GenericArray_default],
                   binding |-> binding_key]

\* initialize that does not prime the two digests with their seeds.
initialize_unprimed(seed) ==
    IF Len(seed) # seed_len
    THEN [ok |-> FALSE]
    ELSE LET dlen   == OutputSize
             keylen == KeySize
             kf == Slice(seed, 2 * dlen + 1, 2 * dlen + keylen)
             kb == Slice(seed, 2 * dlen + keylen + 1, 2 * dlen + 2 * keylen)
             binding_key == Slice(seed, 2 * dlen + 2 * keylen + 1,
                                  2 * dlen + 2 * keylen + CIRC_BINDING_LEN)
         IN  [ok   |-> TRUE,
              fwd  |-> [cipher |-> SC_new(kf),
                        digest |-> D_new,
                        last_digest_val |-> GenericArray_default],
              back |-> [cipher |-> SC_new(kb),
                        digest |-> D_new,
                        last_digest_val |-> GenericArray_default],
              binding |-> binding_key]

\* initialize that rejects a seed only when it is too short, and uses the
\* front of a longer one.
initialize_accepts_longer(seed) ==
    IF Len(seed) < seed_len
    THEN [ok |-> FALSE]
    ELSE LET dlen   == OutputSize
             keylen == KeySize
             df == Slice(seed, 1, dlen)
             db == Slice(seed, dlen + 1, 2 * dlen)
             kf == Slice(seed, 2 * dlen + 1, 2 * dlen + keylen)
             kb == Slice(seed, 2 * dlen + keylen + 1, 2 * dlen + 2 * keylen)
             binding_key == Slice(seed, 2 * dlen + 2 * keylen + 1,
                                  2 * dlen + 2 * keylen + CIRC_BINDING_LEN)
         IN  [ok   |-> TRUE,
              fwd  |-> [cipher |-> SC_new(kf),
                        digest |-> D_update(D_new, df),
                        last_digest_val |-> GenericArray_default],
              back |-> [cipher |-> SC_new(kb),
                        digest |-> D_update(D_new, db),
                        last_digest_val |-> GenericArray_default],
              binding |-> binding_key]

\* initialize that takes the cipher keys in the order backward, forward.
initialize_swaps_keys(seed) ==
    IF Len(seed) # seed_len
    THEN [ok |-> FALSE]
    ELSE LET dlen   == OutputSize
             keylen == KeySize
             df == Slice(seed, 1, dlen)
             db == Slice(seed, dlen + 1, 2 * dlen)
             kb == Slice(seed, 2 * dlen + 1, 2 * dlen + keylen)
             kf == Slice(seed, 2 * dlen + keylen + 1, 2 * dlen + 2 * keylen)
             binding_key == Slice(seed, 2 * dlen + 2 * keylen + 1,
                                  2 * dlen + 2 * keylen + CIRC_BINDING_LEN)
         IN  [ok   |-> TRUE,
              fwd  |-> [cipher |-> SC_new(kf),
                        digest |-> D_update(D_new, df),
                        last_digest_val |-> GenericArray_default],
              back |-> [cipher |-> SC_new(kb),
                        digest |-> D_update(D_new, db),
                        last_digest_val |-> GenericArray_default],
              binding |-> binding_key]

\* initialize that keys both ciphers with the forward key.
initialize_one_key(seed) ==
    IF Len(seed) # seed_len
    THEN [ok |-> FALSE]
    ELSE LET dlen   == OutputSize
             keylen == KeySize
             df == Slice(seed, 1, dlen)
             db == Slice(seed, dlen + 1, 2 * dlen)
             kf == Slice(seed, 2 * dlen + 1, 2 * dlen + keylen)
             binding_key == Slice(seed, 2 * dlen + 2 * keylen + 1,
                                  2 * dlen + 2 * keylen + CIRC_BINDING_LEN)
         IN  [ok   |-> TRUE,
              fwd  |-> [cipher |-> SC_new(kf),
                        digest |-> D_update(D_new, df),
                        last_digest_val |-> GenericArray_default],
              back |-> [cipher |-> SC_new(kf),
                        digest |-> D_update(D_new, db),
                        last_digest_val |-> GenericArray_default],
              binding |-> binding_key]

\* CryptStatePair::initialize.  The result is [ok |-> FALSE] for the
\* internal error, and otherwise the pair.
initialize(seed) ==
    IF Len(seed) # seed_len
    THEN [ok |-> FALSE]
    ELSE LET dlen   == OutputSize
             keylen == KeySize
             df == Slice(seed, 1, dlen)
             db == Slice(seed, dlen + 1, 2 * dlen)
             kf == Slice(seed, 2 * dlen + 1, 2 * dlen + keylen)
             kb == Slice(seed, 2 * dlen + keylen + 1, 2 * dlen + 2 * keylen)
             binding_key == Slice(seed, 2 * dlen + 2 * keylen + 1,
                                  2 * dlen + 2 * keylen + CIRC_BINDING_LEN)
             binding == CircuitBinding_try_from(binding_key)
         IN  IF ~binding.ok
             THEN [ok |-> FALSE]
             ELSE [ok   |-> TRUE,
                   fwd  |-> [cipher |-> SC_new(kf),
                             digest |-> D_update(D_new, df),
                             last_digest_val |-> GenericArray_default],
                   back |-> [cipher |-> SC_new(kb),
                             digest |-> D_update(D_new, db),
                             last_digest_val |-> GenericArray_default],
                   binding |-> binding.val]

\* The result of a per-cell operation: the state, the cell buffer, whether
\* a tag is returned (always, for originate; Some / None for decrypt), and
\* the tag.
Outcome(self, cell, some, tag) ==
    [self |-> self, cell |-> cell, some |-> some, tag |-> tag]

NoTag == <<>>

\* InboundRelayLayer::encrypt_inbound for CryptState
encrypt_inbound(self, cell) ==
    LET r == apply_keystream(self.cipher, cell)
    IN  Outcome([self EXCEPT !.cipher = r.cipher], r.buf, FALSE, NoTag)

\* A relay's originate that returns the whole of last_digest_val as the
\* tag.
originate_full_tag(self, cell) ==
    LET s == set_digest(cell, self.digest, self.last_digest_val)
        e == encrypt_inbound([self EXCEPT !.digest = s.d,
                                          !.last_digest_val = s.used_digest],
                             s.cell)
    IN  Outcome(e.self, e.cell, TRUE, e.self.last_digest_val)

\* InboundRelayLayer::originate for CryptState
originate(self, cell) ==
    LET s == set_digest(cell, self.digest, self.last_digest_val)
        e == encrypt_inbound([self EXCEPT !.digest = s.d,
                                          !.last_digest_val = s.used_digest],
                             s.cell)
    IN  Outcome(e.self, e.cell, TRUE,
                Slice(e.self.last_digest_val, 1, SENDME_TAG_LEN))

\* decrypt_outbound that advances the cipher only for a recognized cell.
decrypt_outbound_probes_cipher(self, cell) ==
    LET r == apply_keystream(self.cipher, cell)
        c == is_recognized(r.buf, self.digest, self.last_digest_val)
        post == [cipher |-> r.cipher, digest |-> c.d, last_digest_val |-> c.rcvd]
    IN  IF c.ok
        THEN Outcome(post, r.buf, TRUE, Slice(post.last_digest_val, 1, SENDME_TAG_LEN))
        ELSE Outcome([post EXCEPT !.cipher = self.cipher], r.buf, FALSE, NoTag)

\* decrypt_outbound whose recognition check leaves the digest field of the
\* cell zeroed.
decrypt_outbound_clears_field(self, cell) ==
    LET r == apply_keystream(self.cipher, cell)
        c == is_recognized(r.buf, self.digest, self.last_digest_val)
        post == [cipher |-> r.cipher, digest |-> c.d, last_digest_val |-> c.rcvd]
    IN  IF c.ok
        THEN Outcome(post, Fill0(r.buf, DIGEST_RANGE), TRUE,
                     Slice(post.last_digest_val, 1, SENDME_TAG_LEN))
        ELSE Outcome(post, r.buf, FALSE, NoTag)

\* OutboundRelayLayer::decrypt_outbound for CryptState
decrypt_outbound(self, cell) ==
    LET r == apply_keystream(self.cipher, cell)
        c == is_recognized(r.buf, self.digest, self.last_digest_val)
        post == [cipher |-> r.cipher, digest |-> c.d, last_digest_val |-> c.rcvd]
    IN  IF c.ok
        THEN Outcome(post, r.buf, TRUE, Slice(post.last_digest_val, 1, SENDME_TAG_LEN))
        ELSE Outcome(post, r.buf, FALSE, NoTag)

\* encrypt_outbound that also feeds the cell to the running digest.
encrypt_outbound_feeds_digest(self, cell) ==
    LET r == apply_keystream(self.cipher, cell)
    IN  Outcome([self EXCEPT !.cipher = r.cipher,
                             !.digest = D_update(@, cell)],
                r.buf, FALSE, NoTag)

\* OutboundClientLayer::encrypt_outbound for CryptState
encrypt_outbound(self, cell) ==
    LET r == apply_keystream(self.cipher, cell)
    IN  Outcome([self EXCEPT !.cipher = r.cipher], r.buf, FALSE, NoTag)

\* originate_for that returns as many bytes of last_digest_val as the
\* digest field holds.
originate_for_field_tag(self, cell) ==
    LET s == set_digest(cell, self.digest, self.last_digest_val)
        e == encrypt_outbound([self EXCEPT !.digest = s.d,
                                           !.last_digest_val = s.used_digest],
                              s.cell)
    IN  Outcome(e.self, e.cell, TRUE,
                Slice(e.self.last_digest_val, 1, Cardinality(DIGEST_RANGE)))

\* OutboundClientLayer::originate_for for CryptState
originate_for(self, cell) ==
    LET s == set_digest(cell, self.digest, self.last_digest_val)
        e == encrypt_outbound([self EXCEPT !.digest = s.d,
                                           !.last_digest_val = s.used_digest],
                              s.cell)
    IN  Outcome(e.self, e.cell, TRUE,
                Slice(e.self.last_digest_val, 1, SENDME_TAG_LEN))

\* decrypt_inbound that puts the cipher back when the cell is not recognized.
decrypt_inbound_rewinds(self, cell) ==
    LET r == apply_keystream(self.cipher, cell)
        c == is_recognized(r.buf, self.digest, self.last_digest_val)
        post == [cipher |-> r.cipher, digest |-> c.d, last_digest_val |-> c.rcvd]
    IN  IF c.ok
        THEN Outcome(post, r.buf, TRUE, Slice(post.last_digest_val, 1, SENDME_TAG_LEN))
        ELSE Outcome([post EXCEPT !.cipher = self.cipher], r.buf, FALSE, NoTag)

\* InboundClientLayer::decrypt_inbound for CryptState
decrypt_inbound(self, cell) ==
    LET r == apply_keystream(self.cipher, cell)
        c == is_recognized(r.buf, self.digest, self.last_digest_val)
        post == [cipher |-> r.cipher, digest |-> c.d, last_digest_val |-> c.rcvd]
    IN  IF c.ok
        THEN Outcome(post, r.buf, TRUE, Slice(post.last_digest_val, 1, SENDME_TAG_LEN))
        ELSE Outcome(post, r.buf, FALSE, NoTag)

----------------------------------------------------------------------------
(* A link: one direction of one hop.  The sender holds the CryptState of   *)
(* one end, the receivers hold CryptStates of the other end; the cells the *)
(* sender produces travel over `wire`, where a bit may be flipped.         *)

\* The number of cells a sender processes.
MaxCells == 2

Dirs == {"fwd", "back"}

\* Seeds of seed_len bytes, written as byte values.  Seed1 is the seed of
\* the link.  Of the others, SeedBind differs from it in the binding key
\* only, SeedBack in the backward slices only, SeedFwd in the forward
\* slices only, SeedKeys in both cipher keys, SeedDig in both digest seeds,
\* and Seed2 everywhere.
Seed1    == <<1, 2, 3, 0,  3, 2, 1, 0,  1, 2,  2, 1,  1>>
SeedBind == <<1, 2, 3, 0,  3, 2, 1, 0,  1, 2,  2, 1,  3>>
SeedBack == <<1, 2, 3, 0,  0, 2, 1, 0,  1, 2,  2, 3,  1>>
SeedFwd  == <<1, 2, 3, 3,  3, 2, 1, 0,  1, 0,  2, 1,  1>>
SeedKeys == <<1, 2, 3, 0,  3, 2, 1, 0,  3, 2,  0, 1,  1>>
SeedDig  == <<0, 2, 3, 0,  3, 2, 1, 1,  1, 2,  2, 1,  1>>
Seed2    == <<2, 2, 0, 1,  1, 0, 3, 3,  2, 0,  3, 3,  2>>

\* Cell bodies a caller hands in: cmd, recognized (2), stream id, digest (2),
\* data.  CellB differs from CellA in the data; CellJ differs from CellA
\* only in what the caller left in the recognized and digest fields.
CellA == BytesOf(<<2, 0, 0, 1, 0, 0, 1>>)
CellB == BytesOf(<<2, 0, 0, 1, 0, 0, 2>>)
CellJ == BytesOf(<<2, 1, 0, 1, 3, 2, 1>>)
Cells == {CellA, CellB, CellJ}

\* A flip <<j, b>> inverts bit b of byte j of a cell in flight; NoFlip
\* leaves the cell as it is.
NoFlip == <<0, 0>>
Flips == {<<2, 0>>, <<6, 1>>, <<7, 0>>}

Tamper(ct, f) ==
    [j \in 1..Len(ct) |-> IF j = f[1] THEN Xor(ct[j], {Bit(f[2])}) ELSE ct[j]]

VARIABLES
    cfg,     \* the direction of the link and the seed of every CryptState
    st,      \* the CryptState of every instance
    wire,    \* the cells the sender "snd" has produced, in order
    rlog,    \* per receiver: the cells it was given and what it reported
    nops,    \* per instance: the number of per-cell operations so far
    hist,    \* per instance: the cells it originated or recognized
    queue,   \* circuit: per relay, the cells that have arrived at it
    last,    \* the most recent per-cell operation, with its pre/post state
    pair,    \* what CryptStatePair::initialize returned for the seed
    input,   \* slug: the string handed to check_syntax
    result   \* slug: what check_syntax returned for it

vars == <<cfg, st, wire, rlog, nops, hist, queue, last, pair, input, result>>

\* The variables a link or a circuit does not use.
others == <<pair, input, result>>

NoPair == [ok |-> FALSE]
NoResult == [kind |-> "None"]

InitOthers ==
    /\ pair = NoPair
    /\ input = <<>>
    /\ result = NoResult

\* The directional state that initialize derives from a seed.
Derive(seed, dir) ==
    LET p == initialize(BytesOf(seed))
    IN  IF dir = "fwd" THEN p.fwd ELSE p.back

NoOp == [id |-> "", op |-> "init", cin |-> <<>>, cout |-> <<>>,
         some |-> FALSE, tag |-> NoTag,
         pre |-> Derive(Seed1, "fwd"), post |-> Derive(Seed1, "fwd")]

\* The operation a role performs in a direction: the client is the sender
\* of the forward direction, the relay of the backward one.
OpName(role, dir) ==
    CASE role = "originate" -> IF dir = "fwd" THEN "originate_for" ELSE "originate"
      [] role = "encrypt"   -> IF dir = "fwd" THEN "encrypt_outbound" ELSE "encrypt_inbound"
      [] role = "decrypt"   -> IF dir = "fwd" THEN "decrypt_outbound" ELSE "decrypt_inbound"

Apply(op, self, cell) ==
    CASE op = "originate_for"    -> originate_for(self, cell)
      [] op = "originate"        -> originate(self, cell)
      [] op = "encrypt_outbound" -> encrypt_outbound(self, cell)
      [] op = "encrypt_inbound"  -> encrypt_inbound(self, cell)
      [] op = "decrypt_outbound" -> decrypt_outbound(self, cell)
      [] op = "decrypt_inbound"  -> decrypt_inbound(self, cell)

\* A step whose cipher starts from a position that the seed and the cells
\* do not determine.
Step_random_skip(i, role, cell) ==
    \E skip \in {0, 1} :
        LET op == OpName(role, cfg.dir)
            r  == Apply(op, [st[i] EXCEPT !.cipher.pos = @ + skip], cell)
        IN  /\ st' = [st EXCEPT ![i] = r.self]
            /\ nops' = [nops EXCEPT ![i] = @ + 1]
            /\ hist' = [hist EXCEPT ![i] =
                           IF role = "originate" THEN Append(@, cell)
                           ELSE IF role = "decrypt" /\ r.some THEN Append(@, r.cell)
                           ELSE @]
            /\ last' = [id |-> i, op |-> op, cin |-> cell, cout |-> r.cell,
                        some |-> r.some, tag |-> r.tag,
                        pre |-> st[i], post |-> r.self]

\* Instance i performs the operation of `role` on the cell buffer `cell`.
Step(i, role, cell) ==
    LET op == OpName(role, cfg.dir)
        r  == Apply(op, st[i], cell)
    IN  /\ st' = [st EXCEPT ![i] = r.self]
        /\ nops' = [nops EXCEPT ![i] = @ + 1]
        /\ hist' = [hist EXCEPT ![i] =
                       IF role = "originate" THEN Append(@, cell)
                       ELSE IF role = "decrypt" /\ r.some THEN Append(@, r.cell)
                       ELSE @]
        /\ last' = [id |-> i, op |-> op, cin |-> cell, cout |-> r.cell,
                    some |-> r.some, tag |-> r.tag,
                    pre |-> st[i], post |-> r.self]

\* The sender originates the cell c and puts the result on the wire.
SndOriginate(c) ==
    /\ Len(wire) < MaxCells
    /\ Step("snd", "originate", c)
    /\ LET r == Apply(OpName("originate", cfg.dir), st["snd"], c)
       IN  wire' = Append(wire, [ct |-> r.cell, kind |-> "originate", cin |-> c,
                                 tag |-> r.tag, post |-> r.self])
    /\ UNCHANGED <<cfg, rlog, queue, others>>

\* The sender passes on the cell c, which is for a later hop: it encrypts
\* only.
SndEncrypt(c) ==
    /\ Len(wire) < MaxCells
    /\ Step("snd", "encrypt", c)
    /\ LET r == Apply(OpName("encrypt", cfg.dir), st["snd"], c)
       IN  wire' = Append(wire, [ct |-> r.cell, kind |-> "encrypt", cin |-> c,
                                 tag |-> r.tag, post |-> r.self])
    /\ UNCHANGED <<cfg, rlog, queue, others>>

\* The receiver i is given cell number k of the wire, with the flip f.
RcvDecrypt(i, k, f) ==
    /\ k \in 1..Len(wire)
    /\ Step(i, "decrypt", Tamper(wire[k].ct, f))
    /\ LET r == Apply(OpName("decrypt", cfg.dir), st[i], Tamper(wire[k].ct, f))
       IN  rlog' = [rlog EXCEPT ![i] =
                       Append(@, [k |-> k, flip |-> f, some |-> r.some,
                                  tag |-> r.tag, post |-> r.self])]
    /\ UNCHANGED <<cfg, wire, queue, others>>

\* The receiver processes the wire in order; a cell may be tampered with.
RcvNext(i) == \E f \in Flips \cup {NoFlip} : RcvDecrypt(i, Len(rlog[i]) + 1, f)

InitLink(insts, seeds, dir) ==
    /\ cfg = [dir |-> dir, seed |-> seeds]
    /\ st = [i \in insts |-> Derive(seeds[i], dir)]
    /\ wire = <<>>
    /\ rlog = [i \in insts |-> <<>>]
    /\ nops = [i \in insts |-> 0]
    /\ hist = [i \in insts |-> <<>>]
    /\ queue = <<>>
    /\ last = NoOp
    /\ InitOthers

\* Sender and receiver of one link, initialized from the same seed.
Init ==
    \E dir \in Dirs :
        InitLink({"snd", "rcv"}, [i \in {"snd", "rcv"} |-> Seed1], dir)

Originate == \E c \in Cells : SndOriginate(c)
Encrypt == \E c \in Cells : SndEncrypt(c)
Decrypt == RcvNext("rcv")

Next == Originate \/ Encrypt \/ Decrypt

Spec == Init /\ [][Next]_vars

----------------------------------------------------------------------------
(* Properties of one link (specification Spec).                            *)

Originates == {"originate_for", "originate"}
Encrypts == {"encrypt_outbound", "encrypt_inbound"}
Decrypts == {"decrypt_outbound", "decrypt_inbound"}

\* The keystream block a cipher in the state `cipher` produces next.
Block(cipher) == [j \in 1..CELL_LEN |-> {<<"k", cipher.pos + j, cipher.key>>}]

XorCell(a, b) == [j \in 1..CELL_LEN |-> Xor(a[j], b[j])]

\* A cell with its digest field replaced by zeros.
ZeroDigest(cell) ==
    Slice(cell, 1, Lo(DIGEST_RANGE) - 1) \o EMPTY_DIGEST
        \o Slice(cell, Hi(DIGEST_RANGE) + 1, CELL_LEN)

\* A cell with its recognized and digest fields replaced by zeros.
ZeroFields(cell) ==
    [j \in 1..CELL_LEN |->
        IF j \in RECOGNIZED_RANGE \cup DIGEST_RANGE THEN Zero ELSE cell[j]]

\* Receiver i has been given the first m cells of the wire, in order and
\* as the sender produced them.
InOrder(i, m) ==
    /\ m <= Len(rlog[i])
    /\ \A j \in 1..m : rlog[i][j].k = j /\ rlog[i][j].flip = NoFlip

\* C1: a fresh CryptState originates a cell; a fresh CryptState of the same
\* seed and direction, given the ciphertext, reports recognized and returns
\* the tag that originate returned.
C1_RoundTrip ==
    (/\ Len(wire) >= 1
     /\ wire[1].kind = "originate"
     /\ InOrder("rcv", 1))
    => (/\ rlog["rcv"][1].some
        /\ rlog["rcv"][1].tag = wire[1].tag
        /\ Len(wire[1].tag) = SENDME_TAG_LEN)

\* C1 witness: the round trip of a cell whose caller left junk in the
\* recognized and digest fields.
C1_Witness ==
    /\ Len(wire) >= 1
    /\ wire[1].kind = "originate"
    /\ wire[1].cin = CellJ
    /\ InOrder("rcv", 1)
    /\ rlog["rcv"][1].some

\* C2: a decrypt that reports None leaves the running digest and
\* last_digest_val as they were; the running digest changes in a decrypt
\* exactly when the decrypt reports recognized.
C2_NoneLeavesDigest ==
    (last.op \in Decrypts)
    => (/\ ~last.some => (/\ last.post.digest = last.pre.digest
                          /\ last.post.last_digest_val = last.pre.last_digest_val)
        /\ (last.post.digest # last.pre.digest) <=> last.some)

\* C2 witness: a decrypt that gets past the recognized field (it is all
\* zero) and fails on the digest field.
C2_Witness ==
    /\ last.op \in Decrypts
    /\ ~last.some
    /\ is_zero(recognized(last.cout))
    /\ last.post.digest = last.pre.digest

\* C3: a decrypt that reports recognized extends the running digest by the
\* decrypted cell with its digest field zeroed, sets last_digest_val to the
\* finalized value of the new running digest, and returns its first
\* SENDME_TAG_LEN bytes.
C3_RecognizedAdvances ==
    (last.op \in Decrypts /\ last.some)
    => (/\ last.post.digest = last.pre.digest \o ZeroDigest(last.cout)
        /\ last.post.last_digest_val = D_finalize(last.post.digest)
        /\ last.tag = Slice(last.post.last_digest_val, 1, SENDME_TAG_LEN))

\* C3 witness: the second recognized cell of a receiver.
C3_Witness ==
    /\ last.op \in Decrypts
    /\ last.some
    /\ Len(hist[last.id]) = 2

\* The digest seed of instance i: the slice of its seed that primes the
\* digest of its direction.
DigestSeed(i) ==
    IF cfg.dir = "fwd"
    THEN Slice(BytesOf(cfg.seed[i]), 1, OutputSize)
    ELSE Slice(BytesOf(cfg.seed[i]), OutputSize + 1, 2 * OutputSize)

RECURSIVE Concat(_)
Concat(cells) ==
    IF cells = <<>> THEN <<>> ELSE ZeroFields(Head(cells)) \o Concat(Tail(cells))

\* C4: the running digest of a CryptState is its digest seed followed by
\* the cells it originated or recognized, in order, each with the two
\* fields zeroed; and when the sender has originated the first m cells of
\* the wire and the receiver was given them in order, each was recognized
\* and left the receiver with the running digest and last_digest_val the
\* sender had after it.
C4_LockStep ==
    /\ \A i \in DOMAIN st : st[i].digest = DigestSeed(i) \o Concat(hist[i])
    /\ \A m \in 1..Len(rlog["rcv"]) :
          (InOrder("rcv", m) /\ \A j \in 1..m : wire[j].kind = "originate")
          => (/\ rlog["rcv"][m].some
              /\ rlog["rcv"][m].post.digest = wire[m].post.digest
              /\ rlog["rcv"][m].post.last_digest_val = wire[m].post.last_digest_val)

\* C4 witness: two cells originated and both received in order.
C4_Witness ==
    /\ InOrder("rcv", 2)
    /\ \A j \in 1..2 : wire[j].kind = "originate"
    /\ wire[1].cin = CellJ
    /\ st["rcv"].digest = st["snd"].digest

\* C5: every per-cell operation XORs the next keystream block into the
\* whole cell and advances the cipher position by one cell width, also a
\* decrypt that reports None; after k operations the position is k cell
\* widths.
C5_CipherPosition ==
    /\ \A i \in DOMAIN st : st[i].cipher.pos = nops[i] * CELL_LEN
    /\ (last.op # "init")
       => (/\ last.post.cipher.pos = last.pre.cipher.pos + CELL_LEN
           /\ last.post.cipher.key = last.pre.cipher.key
           /\ LET plain == XorCell(last.cout, Block(last.pre.cipher))
              IN  IF last.op \in Originates
                  THEN /\ ZeroFields(plain) = ZeroFields(last.cin)
                       /\ is_zero(recognized(plain))
                       /\ digest(plain) = Slice(last.post.last_digest_val, 1,
                                                Cardinality(DIGEST_RANGE))
                  ELSE plain = last.cin)

\* C5 witness: the second operation of a receiver is a decrypt that
\* reports None.
C5_Witness ==
    /\ last.op \in Decrypts
    /\ ~last.some
    /\ nops[last.id] = 2
    /\ last.post.cipher.pos = 2 * CELL_LEN

\* C6: encrypt_outbound / encrypt_inbound XOR the next keystream block into
\* the cell, byte by byte, and advance the cipher position; the running
\* digest and last_digest_val stay as they were.
C6_EncryptFrame ==
    (last.op \in Encrypts)
    => (/\ last.cout = XorCell(last.cin, Block(last.pre.cipher))
        /\ last.post = [last.pre EXCEPT !.cipher.pos = @ + CELL_LEN])

\* C6 witness: an encrypt, after an originate, of a cell with non-zero
\* recognized and digest fields.
C6_Witness ==
    /\ last.op \in Encrypts
    /\ last.cin = CellJ
    /\ Len(hist[last.id]) = 1
    /\ last.post.digest = last.pre.digest

\* The running digest and last_digest_val of receiver i before it was
\* given its cell number j.
Before(i, j) ==
    IF j = 1 THEN Derive(cfg.seed[i], cfg.dir) ELSE rlog[i][j - 1].post

\* Receiver i was given cell j with a bit flipped.
Flipped(i, j) == j \in 1..Len(rlog[i]) /\ rlog[i][j].flip # NoFlip

\* Receiver i rejected cell j and kept its running digest.
Rejected(i, j) ==
    /\ ~rlog[i][j].some
    /\ rlog[i][j].post.digest = Before(i, j).digest
    /\ rlog[i][j].post.last_digest_val = Before(i, j).last_digest_val

\* Cell j + 1 is a correct cell after cell j: the sender originated it and
\* the receiver was given it, and every cell but j, as the sender produced
\* them.
CorrectNext(i, j) ==
    /\ j + 1 <= Len(rlog[i])
    /\ wire[j + 1].kind = "originate"
    /\ \A n \in 1..(j + 1) : n # j => rlog[i][n].flip = NoFlip

\* C9 as stated: a cell with one bit flipped is reported not recognized and
\* leaves the running digest unchanged, and a subsequent correct cell is
\* recognized.
C9_Original ==
    \A j \in 1..Len(rlog["rcv"]) :
        Flipped("rcv", j)
        => (/\ Rejected("rcv", j)
            /\ CorrectNext("rcv", j) => rlog["rcv"][j + 1].some)

\* C9, amended: a cell with one bit flipped is reported not recognized and
\* leaves the running digest and last_digest_val unchanged; the sender's
\* next originated cell is recognized if the flipped cell was one the
\* sender only encrypted, and is not recognized if the flipped cell was one
\* the sender originated.
C9_TamperRejected ==
    \A j \in 1..Len(rlog["rcv"]) :
        Flipped("rcv", j)
        => (/\ Rejected("rcv", j)
            /\ CorrectNext("rcv", j)
               => (rlog["rcv"][j + 1].some <=> wire[j].kind = "encrypt"))

\* C9 witness: a flipped cell the sender had only encrypted, then an
\* originated cell, which is recognized.
C9_Witness ==
    /\ Flipped("rcv", 1)
    /\ Rejected("rcv", 1)
    /\ CorrectNext("rcv", 1)
    /\ wire[1].kind = "encrypt"
    /\ rlog["rcv"][2].some

----------------------------------------------------------------------------
(* Order: two senders of the same seed, and a receiver that is given the   *)
(* cells of the first in any order (specification SpecOrder).              *)

\* The second sender, which follows the first, originates the cell c; its
\* ciphertext goes nowhere.
Snd2Originate(c) ==
    /\ Len(hist["snd2"]) < Len(hist["snd"])
    /\ Step("snd2", "originate", c)
    /\ UNCHANGED <<cfg, wire, rlog, queue, others>>

\* The receiver is given a cell of the wire it has not been given yet.
RcvAny(i) ==
    \E k \in 1..Len(wire) :
        /\ \A j \in 1..Len(rlog[i]) : rlog[i][j].k # k
        /\ RcvDecrypt(i, k, NoFlip)

InitOrder ==
    \E dir \in Dirs :
        InitLink({"snd", "snd2", "rcv"},
                 [i \in {"snd", "snd2", "rcv"} |-> Seed1], dir)

Originate2 == \E c \in Cells : Snd2Originate(c)
DecryptAny == RcvAny("rcv")

NextOrder == Originate \/ Originate2 \/ DecryptAny

SpecOrder == InitOrder /\ [][NextOrder]_vars

\* The two senders originated the same cells but for two neighbours, which
\* are swapped; a and b are the swapped cells.
Swapped(p) ==
    /\ Len(hist["snd"]) = Len(hist["snd2"])
    /\ p + 1 <= Len(hist["snd"])
    /\ hist["snd2"][p] = hist["snd"][p + 1]
    /\ hist["snd2"][p + 1] = hist["snd"][p]
    /\ \A j \in 1..Len(hist["snd"]) : j \notin {p, p + 1} => hist["snd2"][j] = hist["snd"][j]

\* The receiver was first given cell 2 and then cell 1 of two originated
\* cells.
SwappedDelivery ==
    /\ Len(rlog["rcv"]) >= 2
    /\ rlog["rcv"][1].k = 2
    /\ rlog["rcv"][2].k = 1

\* C8 as stated: for distinct cells A and B, originating [A, B] and [B, A]
\* leaves different running digests; given the two ciphertexts in swapped
\* order, the receiver does not recognize the second.
C8_Original ==
    /\ \A p \in 1..MaxCells :
          (Swapped(p) /\ hist["snd"][p] # hist["snd"][p + 1])
          => st["snd"].digest # st["snd2"].digest
    /\ SwappedDelivery => ~rlog["rcv"][2].some

\* C8, amended: for cells A and B that differ outside the recognized and
\* digest fields, originating [A, B] and [B, A] leaves different running
\* digests; given the two ciphertexts in swapped order, the receiver does
\* not recognize the second.
C8_OrderSensitive ==
    /\ \A p \in 1..MaxCells :
          (Swapped(p) /\ ZeroFields(hist["snd"][p]) # ZeroFields(hist["snd"][p + 1]))
          => (/\ st["snd"].digest # st["snd2"].digest
              /\ st["snd"].last_digest_val # st["snd2"].last_digest_val)
    /\ SwappedDelivery => ~rlog["rcv"][2].some

\* C8 witness: [A, B] and [B, A] originated, and the ciphertexts of [A, B]
\* given to the receiver in swapped order.
C8_Witness ==
    /\ hist["snd"] = <<CellA, CellB>>
    /\ hist["snd2"] = <<CellB, CellA>>
    /\ st["snd"].digest # st["snd2"].digest
    /\ SwappedDelivery
    /\ ~rlog["rcv"][2].some

----------------------------------------------------------------------------
(* Wrong key: a sender, and a receiver initialized from another seed       *)
(* (specification SpecWrongKey).                                           *)

OtherSeeds == {SeedBind, SeedBack, SeedFwd, SeedKeys, SeedDig, Seed2}

InitWrongKey ==
    \E dir \in Dirs, seed \in OtherSeeds :
        InitLink({"snd", "oth"}, [i \in {"snd", "oth"} |->
                                     IF i = "snd" THEN Seed1 ELSE seed], dir)

\* The other receiver is given the next cell of the wire.
DecryptOther == RcvDecrypt("oth", Len(rlog["oth"]) + 1, NoFlip)

NextWrongKey == Originate \/ DecryptOther

SpecWrongKey == InitWrongKey /\ [][NextWrongKey]_vars

\* The cipher key of instance i: the slice of its seed that keys the cipher
\* of its direction.
CipherKey(i) ==
    IF cfg.dir = "fwd"
    THEN Slice(BytesOf(cfg.seed[i]), 2 * OutputSize + 1, 2 * OutputSize + KeySize)
    ELSE Slice(BytesOf(cfg.seed[i]), 2 * OutputSize + KeySize + 1,
               2 * OutputSize + 2 * KeySize)

\* C10 as stated: a CryptState derived from a different seed never reports
\* recognized for the cells originated under the sender's seed.
C10_Original ==
    (cfg.seed["oth"] # cfg.seed["snd"])
    => \A j \in 1..Len(rlog["oth"]) : ~rlog["oth"][j].some

\* C10, amended: a CryptState derived from a seed that differs from the
\* sender's in the digest seed or the cipher key of its direction never
\* reports recognized for the cells originated under the sender's seed.
C10_WrongKeyRejected ==
    (DigestSeed("oth") # DigestSeed("snd") \/ CipherKey("oth") # CipherKey("snd"))
    => \A j \in 1..Len(rlog["oth"]) : ~rlog["oth"][j].some

\* C10 witness: a receiver with the sender's cipher key and another digest
\* seed has decrypted two originated cells and recognized neither.
C10_Witness ==
    /\ CipherKey("oth") = CipherKey("snd")
    /\ DigestSeed("oth") # DigestSeed("snd")
    /\ Len(rlog["oth"]) = 2
    /\ \A j \in 1..2 : ~rlog["oth"][j].some

----------------------------------------------------------------------------
(* A circuit: the client holds one forward CryptState per hop, and so does *)
(* the relay of each hop (specification SpecCircuit).  The client sends a  *)
(* cell to hop t by originating it at layer t and encrypting it at the     *)
(* layers t - 1 .. 1; each relay decrypts the cells that arrive, keeps     *)
(* those it recognizes and passes the others on.                           *)

\* The number of hops of the circuit.
NHops == 2

Hops == 1..NHops

\* The seed of each hop.
HopSeeds == <<Seed1, Seed2, SeedKeys>>

Client(h) == <<"client", h>>
Relay(h) == <<"relay", h>>

Layers == {Client(h) : h \in Hops} \cup {Relay(h) : h \in Hops}

InitCircuit ==
    /\ cfg = [dir |-> "fwd", seed |-> [i \in Layers |-> HopSeeds[i[2]]]]
    /\ st = [i \in Layers |-> Derive(HopSeeds[i[2]], "fwd")]
    /\ wire = <<>>
    /\ rlog = [i \in Layers |-> <<>>]
    /\ nops = [i \in Layers |-> 0]
    /\ hist = [i \in Layers |-> <<>>]
    /\ queue = [h \in Hops |-> <<>>]
    /\ last = [NoOp EXCEPT !.id = <<"none", 0>>]
    /\ InitOthers

\* The client's layers h, h - 1 .. 1 encrypt the buffer in turn.
RECURSIVE EncryptLayers(_, _, _)
EncryptLayers(states, h, buf) ==
    IF h = 0
    THEN [st |-> states, buf |-> buf]
    ELSE LET r == encrypt_outbound(states[Client(h)], buf)
         IN  EncryptLayers([states EXCEPT ![Client(h)] = r.self], h - 1, r.cell)

\* The client sends the cell c to hop t.
ClientSend(t, c) ==
    /\ Len(wire) < MaxCells
    /\ LET o == originate_for(st[Client(t)], c)
           e == EncryptLayers([st EXCEPT ![Client(t)] = o.self], t - 1, o.cell)
           msg == [ct |-> e.buf, kind |-> "originate", cin |-> c, tag |-> o.tag,
                   post |-> o.self, target |-> t, id |-> Len(wire) + 1]
       IN  /\ st' = e.st
           /\ wire' = Append(wire, msg)
           /\ queue' = [queue EXCEPT ![1] = Append(@, msg)]
           /\ nops' = [i \in Layers |->
                          IF i[1] = "client" /\ i[2] <= t THEN nops[i] + 1 ELSE nops[i]]
           /\ hist' = [hist EXCEPT ![Client(t)] = Append(@, c)]
           /\ last' = [id |-> Client(t), op |-> "originate_for", cin |-> c,
                       cout |-> o.cell, some |-> TRUE, tag |-> o.tag,
                       pre |-> st[Client(t)], post |-> o.self]
    /\ UNCHANGED <<cfg, rlog, others>>

\* The relay of hop h processes the cell that arrived first.
RelayRecv(h) ==
    /\ queue[h] # <<>>
    /\ LET msg == Head(queue[h])
           r == decrypt_outbound(st[Relay(h)], msg.ct)
       IN  /\ st' = [st EXCEPT ![Relay(h)] = r.self]
           /\ queue' = [g \in Hops |->
                           IF g = h THEN Tail(queue[h])
                           ELSE IF g = h + 1 /\ ~r.some
                                THEN Append(queue[g], [msg EXCEPT !.ct = r.cell])
                                ELSE queue[g]]
           /\ rlog' = [rlog EXCEPT ![Relay(h)] =
                          Append(@, [k |-> msg.id, flip |-> NoFlip, some |-> r.some,
                                     tag |-> r.tag, post |-> r.self,
                                     target |-> msg.target])]
           /\ nops' = [nops EXCEPT ![Relay(h)] = @ + 1]
           /\ hist' = [hist EXCEPT ![Relay(h)] = IF r.some THEN Append(@, r.cell) ELSE @]
           /\ last' = [id |-> Relay(h), op |-> "decrypt_outbound", cin |-> msg.ct,
                       cout |-> r.cell, some |-> r.some, tag |-> r.tag,
                       pre |-> st[Relay(h)], post |-> r.self]
    /\ UNCHANGED <<cfg, wire, others>>

Send == \E t \in Hops, c \in Cells : ClientSend(t, c)
Recv == \E h \in Hops : RelayRecv(h)

NextCircuit == Send \/ Recv

SpecCircuit == InitCircuit /\ [][NextCircuit]_vars

\* The cells for hop h among the first n cells the relay of hop h was given.
RECURSIVE ForHop(_, _)
ForHop(h, n) ==
    IF n = 0 THEN <<>>
    ELSE LET e == rlog[Relay(h)][n]
         IN  IF e.target = h THEN Append(ForHop(h, n - 1), e.k) ELSE ForHop(h, n - 1)

\* C7: every cell is recognized at the hop it is for, with the tag the
\* client got, and at no hop before it; a cell for a later hop leaves the
\* running digest of the relay as it was, so that after any sequence of
\* cells the relay's running digest is the one the client's layer had
\* after the last cell for that hop the relay was given.
C7_NoDesync ==
    \A h \in Hops :
        \A n \in 1..Len(rlog[Relay(h)]) :
            LET e == rlog[Relay(h)][n]
                before == IF n = 1 THEN Derive(HopSeeds[h], "fwd")
                          ELSE rlog[Relay(h)][n - 1].post
            IN  /\ e.target >= h
                /\ e.some <=> e.target = h
                /\ e.some => /\ e.tag = wire[e.k].tag
                             /\ e.post.digest = wire[e.k].post.digest
                             /\ e.post.last_digest_val = wire[e.k].post.last_digest_val
                /\ ~e.some => /\ e.post.digest = before.digest
                              /\ e.post.last_digest_val = before.last_digest_val

\* C7 witness: the relay of hop 1 has passed on a cell for hop 2 and then
\* recognized a cell for itself, and the relay of hop 2 has recognized the
\* cell passed on.
C7_Witness ==
    /\ Len(rlog[Relay(1)]) = 2
    /\ rlog[Relay(1)][1].target = 2 /\ ~rlog[Relay(1)][1].some
    /\ rlog[Relay(1)][2].target = 1 /\ rlog[Relay(1)][2].some
    /\ Len(rlog[Relay(2)]) = 1
    /\ rlog[Relay(2)][1].some

----------------------------------------------------------------------------
(* A CryptStatePair: what initialize makes of a seed, and the per-cell     *)
(* operations on the two CryptStates it is split into (specification       *)
(* SpecPair).                                                              *)

\* Seeds of seed_len bytes whose forward and backward slices are related:
\* in SeedSym both are the same, in SeedSameKeys the cipher keys are, in
\* SeedSameDig the digest seeds are.
SeedSym      == <<1, 2, 3, 0,  1, 2, 3, 0,  1, 2,  1, 2,  1>>
SeedSameKeys == <<1, 2, 3, 0,  3, 2, 1, 0,  1, 2,  1, 2,  1>>
SeedSameDig  == <<1, 2, 3, 0,  1, 2, 3, 0,  1, 2,  2, 1,  1>>

\* Byte strings handed to initialize: seeds of the right length, every
\* proper prefix of one, and two that are too long.
PairSeeds ==
    {Seed1, Seed2, SeedSym, SeedSameKeys, SeedSameDig}
        \cup {SubSeq(Seed1, 1, n) : n \in 0..(Len(Seed1) - 1)}
        \cup {Seed1 \o <<0>>, Seed1 \o Seed2}

InitPair ==
    \E seed \in PairSeeds :
        /\ cfg = [dir |-> "pair", seed |-> seed]
        /\ pair = initialize(BytesOf(seed))
        /\ st = <<>>
        /\ wire = <<>>
        /\ queue = <<>>
        /\ rlog = [d \in Dirs |-> <<>>]
        /\ nops = [d \in Dirs |-> 0]
        /\ hist = [d \in Dirs |-> <<>>]
        /\ last = NoOp
        /\ input = <<>>
        /\ result = NoResult

\* The CryptState of direction d of the pair performs the operation of
\* `role` on the cell buffer `cell`.
PairOp(d, role, cell) ==
    /\ pair.ok
    /\ nops["fwd"] + nops["back"] < MaxCells
    /\ LET op == OpName(role, d)
           r  == Apply(op, pair[d], cell)
       IN  /\ pair' = [pair EXCEPT ![d] = r.self]
           /\ nops' = [nops EXCEPT ![d] = @ + 1]
           /\ hist' = [hist EXCEPT ![d] =
                          IF role = "originate" THEN Append(@, cell)
                          ELSE IF role = "decrypt" /\ r.some THEN Append(@, r.cell)
                          ELSE @]
           /\ rlog' = [rlog EXCEPT ![d] =
                          Append(@, [role |-> role, cin |-> cell, cout |-> r.cell,
                                     some |-> r.some, tag |-> r.tag])]
           /\ last' = [id |-> d, op |-> op, cin |-> cell, cout |-> r.cell,
                       some |-> r.some, tag |-> r.tag,
                       pre |-> pair[d], post |-> r.self]
    /\ UNCHANGED <<cfg, st, wire, queue, input, result>>

PairOriginate == \E d \in Dirs, c \in Cells : PairOp(d, "originate", c)
PairEncrypt == \E d \in Dirs, c \in Cells : PairOp(d, "encrypt", c)
\* The cells that can arrive at direction d of the pair: any cell, and the
\* cells that the peer, a fresh state of the same seed and direction,
\* originates as its first cell.
Arriving(d) ==
    Cells \cup {Apply(OpName("originate", d),
                      initialize(BytesOf(cfg.seed))[d], c).cell : c \in Cells}

PairDecrypt ==
    /\ pair.ok
    /\ \E d \in Dirs : \E c \in Arriving(d) : PairOp(d, "decrypt", c)

NextPair == PairOriginate \/ PairEncrypt \/ PairDecrypt

SpecPair == InitPair /\ [][NextPair]_vars

\* C11: initialize returns the error, and constructs no state, for every
\* seed whose length is not 2 * OutputSize + 2 * KeySize + CIRC_BINDING_LEN,
\* shorter or longer, and succeeds for every seed of that length.
C11_SeedLength ==
    /\ seed_len = 2 * OutputSize + 2 * KeySize + CIRC_BINDING_LEN
    /\ Len(cfg.seed) # 2 * OutputSize + 2 * KeySize + CIRC_BINDING_LEN
       => pair = [ok |-> FALSE]
    /\ Len(cfg.seed) = 2 * OutputSize + 2 * KeySize + CIRC_BINDING_LEN
       => /\ pair.ok
          /\ DOMAIN pair = {"ok", "fwd", "back", "binding"}

\* C11 witness: a seed that is one byte too long, rejected.
C11_Witness ==
    /\ Len(cfg.seed) = seed_len + 1
    /\ pair = [ok |-> FALSE]

\* C12: the seed is the forward digest seed, the backward digest seed, the
\* forward cipher key, the backward cipher key and the binding key, in this
\* order, with nothing between or after them; each digest is primed with
\* its seed and each cipher keyed with its key; before the first operation
\* both ciphers are at position zero and both last_digest_val are zero.
C12_SeedLayout ==
    pair.ok
    => LET dseed(d) == SubSeq(pair[d].digest, 1, OutputSize)
       IN  /\ BytesOf(cfg.seed) = dseed("fwd") \o dseed("back")
                  \o pair.fwd.cipher.key \o pair.back.cipher.key \o pair.binding
           /\ \A d \in Dirs : /\ Len(pair[d].digest) >= OutputSize
                              /\ Len(pair[d].cipher.key) = KeySize
           /\ Len(pair.binding) = CIRC_BINDING_LEN
           /\ \A d \in Dirs :
                 nops[d] = 0 => /\ Len(pair[d].digest) = OutputSize
                                /\ pair[d].cipher.pos = 0
                                /\ is_zero(pair[d].last_digest_val)
                                /\ Len(pair[d].last_digest_val) = OutputSize

\* C12 witness: a pair fresh from a seed whose five slices all differ.
C12_Witness ==
    /\ cfg.seed = Seed2
    /\ pair.ok
    /\ nops["fwd"] = 0 /\ nops["back"] = 0
    /\ pair.fwd.cipher.key # pair.back.cipher.key
    /\ pair.fwd.digest # pair.back.digest

\* The second sender has originated the same cells as the first one did
\* as its first Len(hist["snd2"]) cells.
SamePrefix ==
    /\ Len(hist["snd2"]) <= Len(hist["snd"])
    /\ \A j \in 1..Len(hist["snd2"]) : hist["snd2"][j] = hist["snd"][j]

SeedKey(d) ==
    LET o == IF d = "fwd" THEN 2 * OutputSize ELSE 2 * OutputSize + KeySize
    IN  SubSeq(BytesOf(cfg.seed), o + 1, o + KeySize)

SeedDigest(d) ==
    LET o == IF d = "fwd" THEN 0 ELSE OutputSize
    IN  SubSeq(BytesOf(cfg.seed), o + 1, o + OutputSize)

\* The first operation of each direction was the same one, on the same
\* cell.
SameFirstCell ==
    /\ pair.ok
    /\ Len(rlog["fwd"]) >= 1 /\ Len(rlog["back"]) >= 1
    /\ rlog["fwd"][1].role = rlog["back"][1].role
    /\ rlog["fwd"][1].cin = rlog["back"][1].cin

\* C14 as stated: for every valid seed, the forward and the backward state
\* give different ciphertext for the same plaintext cell as their first
\* cell.
C14_Original ==
    SameFirstCell => rlog["fwd"][1].cout # rlog["back"][1].cout

\* C14, amended: the forward and the backward state give different
\* ciphertext for the same first cell if the seed's two cipher keys differ,
\* and, for an originated cell, also if its two digest seeds differ; they
\* give the same ciphertext otherwise.
C14_DirectionsDiffer ==
    SameFirstCell
    => (rlog["fwd"][1].cout # rlog["back"][1].cout
        <=> \/ SeedKey("fwd") # SeedKey("back")
            \/ /\ rlog["fwd"][1].role = "originate"
               /\ SeedDigest("fwd") # SeedDigest("back"))

\* C14 witness: a seed with two different cipher keys and one digest seed
\* for both directions; both directions encrypted the same cell as their
\* first, with different results.
C14_Witness ==
    /\ SameFirstCell
    /\ cfg.seed = SeedSameDig
    /\ rlog["fwd"][1].role = "encrypt"
    /\ rlog["fwd"][1].cout # rlog["back"][1].cout

----------------------------------------------------------------------------
(* Further properties of the per-cell operations of a link                 *)
(* (specification Spec).                                                   *)

\* The plaintext that the last operation encrypted: its output with the
\* keystream block taken off again.
Plain == XorCell(last.cout, Block(last.pre.cipher))

\* C15: originate_for / originate encrypt a plaintext whose recognized
\* field is zero, whose digest field is the first bytes of the snapshot of
\* the old running digest extended by the cell with both fields zeroed,
\* and which is the caller's cell elsewhere; the running digest after the
\* call is that extended value, last_digest_val is the whole snapshot and
\* the tag its first SENDME_TAG_LEN bytes.
C15_Originate ==
    (last.op \in Originates)
    => LET ext  == last.pre.digest \o ZeroFields(last.cin)
           snap == D_finalize(ext)
       IN  /\ is_zero(recognized(Plain))
           /\ digest(Plain) = SubSeq(snap, 1, Cardinality(DIGEST_RANGE))
           /\ ZeroFields(Plain) = ZeroFields(last.cin)
           /\ last.post.digest = ext
           /\ last.post.last_digest_val = snap
           /\ Len(snap) = OutputSize
           /\ last.some
           /\ last.tag = SubSeq(snap, 1, SENDME_TAG_LEN)

\* C15 witness: the second cell a sender originates, which extends the
\* running digest that the first one left.
C15_Witness ==
    /\ last.op \in Originates
    /\ Len(hist[last.id]) = 2
    /\ last.pre.digest = DigestSeed(last.id) \o ZeroFields(hist[last.id][1])
    /\ last.post.digest = last.pre.digest \o ZeroFields(last.cin)
    /\ last.cin = CellJ

----------------------------------------------------------------------------
(* Outcomes of initialize and of the per-cell operations of a pair         *)
(* (specification SpecPair).                                               *)

\* An operation completed and left a CryptState.
Completed(e) ==
    /\ Len(e.cout) = CELL_LEN
    /\ DOMAIN e.post = {"cipher", "digest", "last_digest_val"}
    /\ e.post.cipher.key = e.pre.cipher.key

\* C16: initialize fails exactly for a seed of the wrong length or one
\* whose binding key the constructor refuses; every per-cell operation
\* completes and leaves a state: a decrypt with Some(tag) or None, an
\* originate with a tag, an encrypt without one; and a decrypt that
\* reported None does not stop the state from operating again.
C16_NoErrors ==
    /\ ~pair.ok <=> \/ Len(cfg.seed) # seed_len
                    \/ ~CircuitBinding_try_from(
                           SubSeq(BytesOf(cfg.seed),
                                  seed_len - CIRC_BINDING_LEN + 1, seed_len)).ok
    /\ last.op # "init"
       => /\ Completed(last)
          /\ last.post = pair[last.id]
          /\ last.op \in Decrypts
             => \/ last.some /\ Len(last.tag) = SENDME_TAG_LEN
                \/ ~last.some /\ last.tag = NoTag
          /\ last.op \in Originates => last.some /\ Len(last.tag) = SENDME_TAG_LEN
          /\ last.op \in Encrypts => ~last.some /\ last.tag = NoTag
    /\ \A d \in Dirs :
          \A k \in 1..Len(rlog[d]) :
             (k < Len(rlog[d]) /\ rlog[d][k].role = "decrypt" /\ ~rlog[d][k].some)
             => Len(rlog[d][k + 1].cout) = CELL_LEN

\* C16 witness: a decrypt reported None, and the same state then originated
\* a cell.
C16_Witness ==
    /\ pair.ok
    /\ \E d \in Dirs :
          /\ Len(rlog[d]) = 2
          /\ rlog[d][1].role = "decrypt" /\ ~rlog[d][1].some
          /\ rlog[d][2].role = "originate" /\ rlog[d][2].some

----------------------------------------------------------------------------
(* The client's and the relay's operations on one CryptState               *)
(* (specification Spec).                                                   *)

\* The operation of the other role that does the same work.
Counterpart(op) ==
    CASE op = "originate_for"    -> "originate"
      [] op = "originate"        -> "originate_for"
      [] op = "encrypt_outbound" -> "encrypt_inbound"
      [] op = "encrypt_inbound"  -> "encrypt_outbound"
      [] op = "decrypt_outbound" -> "decrypt_inbound"
      [] op = "decrypt_inbound"  -> "decrypt_outbound"

\* C17: on the state and the cell of any operation, the operation of the
\* other role (originate for originate_for, encrypt_inbound for
\* encrypt_outbound, decrypt_inbound for decrypt_outbound, and the reverse)
\* leaves the same state and the same cell and returns the same result.
C17_RolesAgree ==
    (last.op # "init")
    => LET r == Apply(Counterpart(last.op), last.pre, last.cin)
       IN  /\ r.self = last.post
           /\ r.cell = last.cout
           /\ r.some = last.some
           /\ r.tag = last.tag

\* C17 witness: a relay originated the second cell of the backward
\* direction; the client's originate_for would have done the same.
C17_Witness ==
    /\ last.op = "originate"
    /\ Len(hist[last.id]) = 2
    /\ originate_for(last.pre, last.cin).self = last.post
    /\ originate_for(last.pre, last.cin).tag = last.tag
    /\ Len(last.tag) = SENDME_TAG_LEN

----------------------------------------------------------------------------
(* The authentication tag (specification Spec).                            *)

\* The last operation returned a tag: an originate, or a decrypt that
\* reported recognized.
ReturnedTag == last.op \in Originates \/ (last.op \in Decrypts /\ last.some)

\* The plaintext cell of the last operation: what an originate encrypted,
\* what a decrypt produced.
PlainCell == IF last.op \in Decrypts THEN last.cout ELSE Plain

----------------------------------------------------------------------------
(* Slugs (tor-persist, slug.rs): check_syntax, Slug::new and SlugRef::new  *)
(* (specification SpecSlug).  A string is a sequence of characters; a      *)
(* character is a one-letter string, or its code point written "U+..."     *)
(* where it is not printable ASCII.                                        *)

\* char::is_ascii_lowercase
is_ascii_lowercase(c) ==
    c \in {"a", "b", "c", "d", "e", "f", "g", "h", "i", "j", "k", "l", "m",
           "n", "o", "p", "q", "r", "s", "t", "u", "v", "w", "x", "y", "z"}

\* char::is_ascii_digit
is_ascii_digit(c) == c \in {"0", "1", "2", "3", "4", "5", "6", "7", "8", "9"}

\* Result<(), BadSlug> and the variants of BadSlug
Ok == [ok |-> TRUE]
Err(e) == [ok |-> FALSE, err |-> e]
BadCharacter(c) == [e |-> "BadCharacter", arg |-> c]
BadFirstCharacter(c) == [e |-> "BadFirstCharacter", arg |-> c]
EmptySlugNotAllowed == [e |-> "EmptySlugNotAllowed", arg |-> ""]
ForbiddenOnWindows(bad) == [e |-> "ForbiddenOnWindows", arg |-> bad]

\* os::FORBIDDEN (Windows)
FORBIDDEN ==
    <<
        <<"c", "o", "n">>, <<"p", "r", "n">>, <<"a", "u", "x">>, <<"n", "u", "l">>,
        <<"c", "o", "m", "1">>, <<"c", "o", "m", "2">>, <<"c", "o", "m", "3">>, <<"c", "o", "m", "4">>, <<"c", "o", "m", "5">>,
        <<"c", "o", "m", "6">>, <<"c", "o", "m", "7">>, <<"c", "o", "m", "8">>, <<"c", "o", "m", "9">>, <<"c", "o", "m", "0">>,
        <<"l", "p", "t", "1">>, <<"l", "p", "t", "2">>, <<"l", "p", "t", "3">>, <<"l", "p", "t", "4">>, <<"l", "p", "t", "5">>,
        <<"l", "p", "t", "6">>, <<"l", "p", "t", "7">>, <<"l", "p", "t", "8">>, <<"l", "p", "t", "9">>, <<"l", "p", "t", "0">>
    >>

\* The loop of os::check_forbidden over FORBIDDEN, from entry k on.
RECURSIVE forbidden_from(_, _)
forbidden_from(s, k) ==
    IF k > Len(FORBIDDEN) THEN Ok
    ELSE IF s = FORBIDDEN[k] THEN Err(ForbiddenOnWindows(FORBIDDEN[k]))
    ELSE forbidden_from(s, k + 1)

\* The loop of a check_forbidden that refuses every name that begins with
\* an entry of FORBIDDEN.
RECURSIVE forbidden_prefix_from(_, _)
forbidden_prefix_from(s, k) ==
    IF k > Len(FORBIDDEN) THEN Ok
    ELSE IF /\ Len(s) >= Len(FORBIDDEN[k])
            /\ SubSeq(s, 1, Len(FORBIDDEN[k])) = FORBIDDEN[k]
         THEN Err(ForbiddenOnWindows(FORBIDDEN[k]))
    ELSE forbidden_prefix_from(s, k + 1)

\* check_forbidden that refuses every name that begins with a reserved
\* name.
check_forbidden_prefix(s) ==
    IF cfg.windows THEN forbidden_prefix_from(s, 1) ELSE Ok

\* os::check_forbidden: the Windows one where the target is Windows, the
\* other one elsewhere.
check_forbidden(s) ==
    IF cfg.windows THEN forbidden_from(s, 1) ELSE Ok

\* The loop of check_syntax over the characters of s.
RECURSIVE check_chars(_)
check_chars(s) ==
    IF s = <<>> THEN Ok
    ELSE LET c == Head(s)
         IN  IF is_ascii_lowercase(c) THEN check_chars(Tail(s))
             ELSE IF is_ascii_digit(c) THEN check_chars(Tail(s))
             ELSE IF c = "_" \/ c = "-" THEN check_chars(Tail(s))
             ELSE Err(BadCharacter(c))

\* The loop of a check_syntax that lets a full stop through.
RECURSIVE check_chars_allows_dot(_)
check_chars_allows_dot(s) ==
    IF s = <<>> THEN Ok
    ELSE LET c == Head(s)
         IN  IF is_ascii_lowercase(c) THEN check_chars_allows_dot(Tail(s))
             ELSE IF is_ascii_digit(c) THEN check_chars_allows_dot(Tail(s))
             ELSE IF c = "_" \/ c = "-" \/ c = "." THEN check_chars_allows_dot(Tail(s))
             ELSE Err(BadCharacter(c))

\* check_syntax that lets a full stop through.
check_syntax_allows_dot(s) ==
    IF s = <<>> THEN Err(EmptySlugNotAllowed)
    ELSE IF Head(s) = "-" THEN Err(BadFirstCharacter("-"))
    ELSE IF ~check_chars_allows_dot(s).ok THEN check_chars_allows_dot(s)
    ELSE IF ~check_forbidden(s).ok THEN check_forbidden(s)
    ELSE Ok

\* check_syntax that looks at the characters before it looks for a
\* leading hyphen.
check_syntax_chars_first(s) ==
    IF s = <<>> THEN Err(EmptySlugNotAllowed)
    ELSE IF ~check_chars(s).ok THEN check_chars(s)
    ELSE IF Head(s) = "-" THEN Err(BadFirstCharacter("-"))
    ELSE IF ~check_forbidden(s).ok THEN check_forbidden(s)
    ELSE Ok

\* check_syntax
check_syntax(s) ==
    IF s = <<>> THEN Err(EmptySlugNotAllowed)
    ELSE IF Head(s) = "-" THEN Err(BadFirstCharacter("-"))
    ELSE IF ~check_chars(s).ok THEN check_chars(s)
    ELSE IF ~check_forbidden(s).ok THEN check_forbidden(s)
    ELSE Ok

\* Slug::new_unchecked: a Slug is a box that holds the string.
Slug_new_unchecked(s) == [Slug |-> s]

\* SlugRef::new_unchecked: a SlugRef is the str, seen as a SlugRef.
SlugRef_new_unchecked(s) == [SlugRef |-> s]

\* Slug::new
Slug_new(s) ==
    IF ~check_syntax(s).ok THEN check_syntax(s)
    ELSE [ok |-> TRUE, slug |-> Slug_new_unchecked(s)]

\* SlugRef::new without the syntax check.
SlugRef_new_no_check(s) ==
    [ok |-> TRUE, slug |-> SlugRef_new_unchecked(s)]

\* SlugRef::new
SlugRef_new(s) ==
    IF ~check_syntax(s).ok THEN check_syntax(s)
    ELSE [ok |-> TRUE, slug |-> SlugRef_new_unchecked(s)]

\* Display for Slug and for SlugRef (derived: the string inside)
Slug_to_string(x) == x.Slug
SlugRef_to_string(x) == x.SlugRef

\* From<Slug> for String, and SlugRef::as_str
String_from(x) == x.Slug
as_str(x) == x.SlugRef

\* SLUG_SEPARATOR_CHARS
SLUG_SEPARATOR_CHARS == <<"/", "+", ".">>

\* The characters that the test `bad` puts between x and y.
BadTestChars ==
    {SLUG_SEPARATOR_CHARS[k] : k \in 1..Len(SLUG_SEPARATOR_CHARS)}
        \cup {"\\", " ", "U+000A", "U+0000"}

\* How many characters are typed after the string a behaviour starts from.
MaxTyped == 1

\* The characters typed: legal ones, upper case, the separators, a colon,
\* and the characters of the test `bad`, and two that are not ASCII.
SlugChars ==
    {"a", "n", "y", "z", "0", "1", "9", "_", "-", "A", "Z", "/", "+", ".", ":",
     "\\", " ", "U+000A", "U+0000", "U+00E9", "U+12345"}

\* The strings a behaviour starts from: the empty one, short ones, the
\* entries of FORBIDDEN and some beginnings of them, and x followed by a
\* character of the test `bad` or by a colon.
SlugBases ==
    {<<>>, <<"-">>, <<"a">>, <<"_">>, <<"a", "-">>, <<"x">>,
     <<"c", "o">>, <<"c", "o", "m">>, <<"l", "p", "t">>, <<"n", "u">>}
        \cup {FORBIDDEN[k] : k \in 1..Len(FORBIDDEN)}
        \cup {<<"x", c>> : c \in BadTestChars \cup {":"}}

InitSlug ==
    \E w \in BOOLEAN, b \in SlugBases :
        /\ cfg = [dir |-> "slug", windows |-> w, base |-> b]
        /\ input = b
        /\ result = NoResult
        /\ pair = NoPair
        /\ st = <<>>
        /\ wire = <<>>
        /\ queue = <<>>
        /\ rlog = <<>>
        /\ nops = <<>>
        /\ hist = <<>>
        /\ last = NoOp

\* The character c is added to the string.
Type(c) ==
    /\ result = NoResult
    /\ Len(input) < Len(cfg.base) + MaxTyped
    /\ input' = Append(input, c)
    /\ UNCHANGED <<cfg, st, wire, rlog, nops, hist, queue, last, pair, result>>

\* One of the three entry points is called on the string.
Called(kind, res) ==
    /\ result = NoResult
    /\ result' = [kind |-> kind, res |-> res]
    /\ UNCHANGED <<cfg, st, wire, rlog, nops, hist, queue, last, pair, input>>

TypeChar == \E c \in SlugChars : Type(c)
CheckSyntax == Called("check_syntax", check_syntax(input))
SlugNew == Called("Slug::new", Slug_new(input))
SlugRefNew == Called("SlugRef::new", SlugRef_new(input))

NextSlug == TypeChar \/ CheckSyntax \/ SlugNew \/ SlugRefNew

SpecSlug == InitSlug /\ [][NextSlug]_vars

\* The characters of a slug, and the names reserved on Windows, as the
\* documentation lists them.
LegalSlugChars ==
    {"a", "b", "c", "d", "e", "f", "g", "h", "i", "j", "k", "l", "m", "n",
     "o", "p", "q", "r", "s", "t", "u", "v", "w", "x", "y", "z",
     "0", "1", "2", "3", "4", "5", "6", "7", "8", "9", "_", "-"}

ReservedNames ==
    {<<"c", "o", "n">>, <<"p", "r", "n">>, <<"a", "u", "x">>, <<"n", "u", "l">>}
        \cup {<<"c", "o", "m", d>> : d \in {"0", "1", "2", "3", "4", "5", "6", "7", "8", "9"}}
        \cup {<<"l", "p", "t", d>> : d \in {"0", "1", "2", "3", "4", "5", "6", "7", "8", "9"}}

WellFormed(s) ==
    /\ s # <<>>
    /\ s[1] # "-"
    /\ \A j \in 1..Len(s) : s[j] \in LegalSlugChars

\* C20: check_syntax, Slug::new and SlugRef::new accept a string exactly
\* when it is not empty, does not start with a hyphen and consists of
\* lower-case ASCII letters, ASCII digits, underscores and hyphens, and, on
\* Windows, is not one of the reserved names con, prn, aux, nul,
\* com0..com9, lpt0..lpt9; a well-formed reserved name is refused on
\* Windows as forbidden there.
C20_SlugSyntax ==
    (result # NoResult)
    => /\ result.res.ok
          <=> (WellFormed(input) /\ (cfg.windows => input \notin ReservedNames))
       /\ (cfg.windows /\ input \in ReservedNames)
          => result.res = Err(ForbiddenOnWindows(input))

\* C20 witness: on Windows, "lpt" with "0" typed after it is refused by
\* SlugRef::new.
C20_Witness ==
    /\ cfg.windows
    /\ cfg.base = <<"l", "p", "t">>
    /\ input = <<"l", "p", "t", "0">>
    /\ result.kind = "SlugRef::new"
    /\ ~result.res.ok

\* The string is x, the character c, y.
XcY(c) == input = <<"x", c, "y">>

\* C21: a string that check_syntax, Slug::new or SlugRef::new accepts
\* holds no character of SLUG_SEPARATOR_CHARS and no colon; the string
\* x c y, with c a separator, a colon, a backslash, a space, a newline or
\* NUL, is refused with BadCharacter(c).
C21_Separators ==
    (result # NoResult)
    => /\ result.res.ok
          => \A j \in 1..Len(input) :
                /\ \A k \in 1..Len(SLUG_SEPARATOR_CHARS) :
                      input[j] # SLUG_SEPARATOR_CHARS[k]
                /\ input[j] \notin {"/", "+", ".", ":"}
       /\ \A c \in {"/", "+", ".", ":", "\\", " ", "U+000A", "U+0000"} :
             XcY(c) => result.res = [ok |-> FALSE,
                                     err |-> [e |-> "BadCharacter", arg |-> c]]

\* C21 witness: x.y refused by Slug::new on account of the full stop.
C21_Witness ==
    /\ XcY(".")
    /\ result.kind = "Slug::new"
    /\ result.res = Err(BadCharacter("."))

\* C22: Slug::new and SlugRef::new give the same verdict on every string:
\* both refuse it with the same BadSlug, or both accept it; an accepted
\* Slug or SlugRef displays as the string and converts back to it.
C22_NewAgree ==
    (result # NoResult)
    => LET own == Slug_new(input)
           ref == SlugRef_new(input)
       IN  /\ result.kind = "Slug::new" => result.res = own
           /\ result.kind = "SlugRef::new" => result.res = ref
           /\ own.ok = ref.ok
           /\ ~own.ok => own.err = ref.err
           /\ own.ok => /\ Slug_to_string(own.slug) = input
                        /\ String_from(own.slug) = input
                        /\ SlugRef_to_string(ref.slug) = input
                        /\ as_str(ref.slug) = input

\* C22 witness: Slug::new accepted a string with a hyphen inside, which
\* converts back to the string.
C22_Witness ==
    /\ input = <<"a", "-", "z">>
    /\ result.kind = "Slug::new"
    /\ result.res.ok
    /\ String_from(result.res.slug) = input

\* The positions of the string that hold a character no slug may hold.
Illegal(s) == {j \in 1..Len(s) : s[j] \notin LegalSlugChars}

\* C23: the empty string is refused as EmptySlugNotAllowed; a string that
\* starts with a hyphen as BadFirstCharacter('-'), whatever follows; any
\* other string with an illegal character as BadCharacter(c) for the
\* leftmost such c; and ForbiddenOnWindows is reported only for a string
\* that passes all of these.
C23_Precedence ==
    (result # NoResult)
    => /\ input = <<>> => result.res = Err(EmptySlugNotAllowed)
       /\ (input # <<>> /\ input[1] = "-")
          => result.res = Err(BadFirstCharacter("-"))
       /\ (input # <<>> /\ input[1] # "-" /\ Illegal(input) # {})
          => \E j \in Illegal(input) :
                /\ \A i \in Illegal(input) : j <= i
                /\ result.res = Err(BadCharacter(input[j]))
       /\ (~result.res.ok /\ result.res.err.e = "ForbiddenOnWindows")
          => /\ cfg.windows
             /\ WellFormed(input)
             /\ result.res.err.arg = input

\* C23 witness: a hyphen followed by an illegal character is refused for
\* the hyphen.
C23_Witness ==
    /\ input = <<"-", "A">>
    /\ result.kind = "check_syntax"
    /\ result.res = Err(BadFirstCharacter("-"))

----------------------------------------------------------------------------
(* What the caller leaves in the two fields (specification SpecOrder: two  *)
(* senders initialized from one seed).                                     *)

\* The state in which the first sender originated cell number k.
PreOf(k) ==
    IF k = 1 THEN Derive(cfg.seed["snd"], cfg.dir) ELSE wire[k - 1].post

\* C24: when the second sender originates, from the state in which the
\* first sender originated its k-th cell, a cell that differs from that
\* cell in the recognized and digest fields at most, it produces the same
\* ciphertext, returns the same tag and is left in the same state.
C24_FieldsOverwritten ==
    \A k \in 1..Len(wire) :
       (/\ last.id = "snd2"
        /\ last.op \in Originates
        /\ last.pre = PreOf(k)
        /\ ZeroFields(last.cin) = ZeroFields(wire[k].cin))
       => (/\ last.cout = wire[k].ct
           /\ last.tag = wire[k].tag
           /\ last.post = wire[k].post)

\* C24 witness: the two senders originated, as their second cell and from
\* equal states, two cells that differ in the two fields only.
C24_Witness ==
    /\ Len(wire) >= 2
    /\ last.id = "snd2"
    /\ last.op \in Originates
    /\ Len(hist["snd2"]) = 2
    /\ last.pre = PreOf(2)
    /\ last.cin # wire[2].cin
    /\ ZeroFields(last.cin) = ZeroFields(wire[2].cin)
    /\ last.cout = wire[2].ct

----------------------------------------------------------------------------
(* The cell buffer after a decrypt (specification Spec).                   *)

\* The cell of the wire that the receiver's last decrypt was given.
Given == rlog["rcv"][Len(rlog["rcv"])].k

\* The plaintext that the sender encrypted into cell number k of the wire.
SenderPlain(k) == XorCell(wire[k].ct, Block(PreOf(k).cipher))

\* C25: after a decrypt that reports recognized, the cell buffer is the
\* plaintext the sender encrypted, byte for byte: the caller's bytes
\* outside the two fields, a zero recognized field and the truncated
\* digest in the digest field; after a decrypt that reports None it is the
\* input with this state's keystream block XORed in.
C25_PayloadRecovery ==
    (last.id = "rcv" /\ last.op \in Decrypts)
    => /\ last.some
          => /\ wire[Given].kind = "originate"
             /\ last.cout = SenderPlain(Given)
             /\ ZeroFields(last.cout) = ZeroFields(wire[Given].cin)
             /\ is_zero(recognized(last.cout))
             /\ digest(last.cout)
                   = SubSeq(last.post.last_digest_val, 1, Cardinality(DIGEST_RANGE))
       /\ ~last.some => last.cout = XorCell(last.cin, Block(last.pre.cipher))

\* C25 witness: the receiver recognized the second cell of the wire, which
\* the sender originated from a cell with junk in the two fields.
C25_Witness ==
    /\ last.id = "rcv"
    /\ last.op \in Decrypts
    /\ last.some
    /\ Given = 2
    /\ wire[2].cin = CellJ
    /\ last.cout # CellJ
    /\ last.cout = SenderPlain(2)

----------------------------------------------------------------------------
(* The relay roles that a CryptStatePair plays as a whole in tests and     *)
(* benchmarks, and its split into its parts (specification SpecPairRoles). *)

\* ClientLayer::split_client_layer for CryptStatePair
split_client_layer(self) == <<self.fwd, self.back, self.binding>>

\* RelayLayer::split_relay_layer for CryptStatePair
split_relay_layer(self) == <<self.fwd, self.back, self.binding>>

\* An originate of the pair that is played by the forward state.
Pair_originate_forward(self, cell) ==
    LET r == originate(self.fwd, cell)
    IN  Outcome([self EXCEPT !.fwd = r.self], r.cell, r.some, r.tag)

\* InboundRelayLayer::originate for CryptStatePair
Pair_originate(self, cell) ==
    LET r == originate(self.back, cell)
    IN  Outcome([self EXCEPT !.back = r.self], r.cell, r.some, r.tag)

\* InboundRelayLayer::encrypt_inbound for CryptStatePair
Pair_encrypt_inbound(self, cell) ==
    LET r == encrypt_inbound(self.back, cell)
    IN  Outcome([self EXCEPT !.back = r.self], r.cell, r.some, r.tag)

\* OutboundRelayLayer::decrypt_outbound for CryptStatePair
Pair_decrypt_outbound(self, cell) ==
    LET r == decrypt_outbound(self.fwd, cell)
    IN  Outcome([self EXCEPT !.fwd = r.self], r.cell, r.some, r.tag)

\* A pair that has been split: its parts have moved out of it.
Moved == [ok |-> FALSE, moved |-> TRUE]

InitPairRoles == InitPair

\* The pair performs, as a whole, the operation op with the outcome r on
\* the cell; d is the direction whose state the source hands the cell to.
PairRole(op, d, cell, r) ==
    /\ pair.ok
    /\ nops["fwd"] + nops["back"] < MaxCells
    /\ pair' = r.self
    /\ nops' = [nops EXCEPT ![d] = @ + 1]
    /\ last' = [id |-> "pair", op |-> op, cin |-> cell, cout |-> r.cell,
                some |-> r.some, tag |-> r.tag, pre |-> pair, post |-> r.self]
    /\ UNCHANGED <<cfg, st, wire, rlog, hist, queue, input, result>>

RoleOriginate ==
    /\ pair.ok
    /\ \E c \in Cells : PairRole("Pair_originate", "back", c, Pair_originate(pair, c))

RoleEncrypt ==
    /\ pair.ok
    /\ \E c \in Cells :
          PairRole("Pair_encrypt_inbound", "back", c, Pair_encrypt_inbound(pair, c))

RoleDecrypt ==
    /\ pair.ok
    /\ \E c \in Arriving("fwd") :
          PairRole("Pair_decrypt_outbound", "fwd", c, Pair_decrypt_outbound(pair, c))

\* The pair is split, which consumes it.
Split(op, parts) ==
    /\ pair.ok
    /\ st' = [by |-> op, parts |-> parts]
    /\ pair' = Moved
    /\ last' = [id |-> "pair", op |-> op, cin |-> <<>>, cout |-> <<>>,
                some |-> FALSE, tag |-> NoTag, pre |-> pair, post |-> Moved]
    /\ UNCHANGED <<cfg, wire, rlog, nops, hist, queue, input, result>>

SplitClient == pair.ok /\ Split("split_client_layer", split_client_layer(pair))
SplitRelay == pair.ok /\ Split("split_relay_layer", split_relay_layer(pair))

NextPairRoles ==
    RoleOriginate \/ RoleEncrypt \/ RoleDecrypt \/ SplitClient \/ SplitRelay

SpecPairRoles == InitPairRoles /\ [][NextPairRoles]_vars

\* The binding key that initialize took from the seed.
SeedBinding ==
    SubSeq(BytesOf(cfg.seed), seed_len - CIRC_BINDING_LEN + 1, seed_len)

\* C26: an originate or encrypt_inbound of the pair does to the backward
\* state what the operation does to a CryptState and leaves the forward
\* state as it was; a decrypt_outbound of the pair does so to the forward
\* state and leaves the backward state; the binding key stays the one of
\* the seed; split_client_layer and split_relay_layer return the forward
\* state, the backward state and the binding key, in this order and as
\* they were in the pair.
C26_PairRoles ==
    /\ pair.ok => pair.binding = SeedBinding
    /\ last.op = "Pair_originate"
       => /\ last.post.fwd = last.pre.fwd
          /\ last.post.back = originate(last.pre.back, last.cin).self
          /\ last.post.back # last.pre.back
          /\ last.cout = originate(last.pre.back, last.cin).cell
          /\ last.tag = originate(last.pre.back, last.cin).tag
    /\ last.op = "Pair_encrypt_inbound"
       => /\ last.post.fwd = last.pre.fwd
          /\ last.post.back = encrypt_inbound(last.pre.back, last.cin).self
          /\ last.post.back # last.pre.back
          /\ last.cout = encrypt_inbound(last.pre.back, last.cin).cell
    /\ last.op = "Pair_decrypt_outbound"
       => /\ last.post.back = last.pre.back
          /\ last.post.fwd = decrypt_outbound(last.pre.fwd, last.cin).self
          /\ last.post.fwd # last.pre.fwd
          /\ last.cout = decrypt_outbound(last.pre.fwd, last.cin).cell
          /\ last.some = decrypt_outbound(last.pre.fwd, last.cin).some
          /\ last.tag = decrypt_outbound(last.pre.fwd, last.cin).tag
    /\ last.op \in {"split_client_layer", "split_relay_layer"}
       => /\ st.by = last.op
          /\ st.parts = <<last.pre.fwd, last.pre.back, SeedBinding>>

\* C26 witness: a pair that originated a cell and recognized one is split
\* as a relay layer into the two states it held and the binding key.
C26_Witness ==
    /\ last.op = "split_relay_layer"
    /\ nops["fwd"] = 1 /\ nops["back"] = 1
    /\ st.parts[1] = last.pre.fwd
    /\ st.parts[2] = last.pre.back
    /\ st.parts[1].digest # st.parts[2].digest
    /\ Len(st.parts[1].digest) = OutputSize + CELL_LEN
    /\ Len(st.parts[2].digest) = OutputSize + CELL_LEN

====
